---- MODULE Spec2Model ----
(***************************************************************************)
(* Job orchestration core of Turmola-Server: the job records kept in the   *)
(* shared store (Redis key job:<job_id>), the Celery task executions that  *)
(* write them, cancellation, the relational job table read by the health   *)
(* monitor's failed-job retry, admission at the submission endpoints, and  *)
(* the heartbeat / failover coordinator, and the download strategy         *)
(* selector of the download accelerator.                                   *)
(***************************************************************************)
EXTENDS Integers, FiniteSets, Sequences, TLC

\* ------------------------------------------------------------------ bounds
MaxJobIds == 4        \* job ids of the model (the admission specification uses all)
MaxTasks == 5         \* Celery task ids that can be issued in one behaviour
MaxCancels == 1       \* cancel requests in flight at once
MaxMonitors == 2      \* processes running the health monitor's retry pass
MaxProcs == 2         \* server processes running the heartbeat loop
MaxShutdowns == 1     \* graceful shutdown requests
MaxMigrations == 2    \* task messages in a failover run beyond the first
MaxFormats == 2       \* entries of video_info['formats']
MaxCalls == 2         \* times the selector is asked about one download
MaxCycles == 6        \* cycles of the monitoring loop
MaxHistoryCycles == 503  \* cycles of the monitoring loop that fills its history
MaxBreakerCalls == 8  \* calls through the circuit breaker
MaxClock == 240       \* seconds on the circuit breaker's clock
MaxClients == 2       \* clients of the distributed lock

\* ------------------------------------------------------- program constants
MAX_CONCURRENT_JOBS_NORMAL == 3
MAX_CONCURRENT_JOBS_PREMIUM == 10
max_retries == 3
heartbeat_interval == 30
failover_timeout == 120
maintenance_ttl == 300
shutdown_timeout == 300
cluster_status_ttl == 300
retry_backoff_max == 600
ARIA2_THRESHOLD_MB == 50
long_duration == 1800
cpu_critical == 95
cpu_warning == 85
disk_critical == 95
disk_warning == 85
max_alert_history == 1000
monitoring_interval == 60
assessment_seconds == 1
warning_resend_seconds == 300
slack_fields == 5
failure_threshold == 5
recovery_timeout == 60
lock_timeout == 300
blocking_timeout == 10

JobIds == 1..MaxJobIds
\* No operation on one job reads another job's record, so the lifecycle and
\* retry specifications follow a single job.
OneJob == {1}
TaskIds == 1..MaxTasks
Cancels == 1..MaxCancels
Monitors == 1..MaxMonitors
Procs == 1..MaxProcs
Shutdowns == 1..MaxShutdowns

\* FailoverService.node_id: settings.NODE_ID if the settings object has it,
\* else "node-1". Settings declares no NODE_ID and ignores undeclared
\* variables, so every process is "node-1", written here as node 1.
NodeId(p) == 1
NodeIds == {NodeId(p) : p \in Procs}

Terminal == {"success", "failed", "cancelled"}

\* The exceptions a download raises: network/timeout class, or the resource
\* is not there or forbidden.
ErrorKinds == {"transient", "permanent"}

VARIABLES
    job,        \* Redis job:<job_id> -> job_data
    task,       \* Celery: task id -> [job, st]
    revoked,    \* Celery: ids passed to control.revoke(..., terminate=True)
    db,         \* table job_records: job_id -> [status, retry_count]
    cancelReq,  \* cancel_job requests: [pc, job, data]
    mon,        \* health monitor processes: [pc, failed, celery]
    retried,    \* history: times the health monitor re-enqueued each job
    hb,         \* Redis heartbeat:<node_id> -> [status, age]
    running_jobs, \* Redis set running_jobs:<node_id>
    proc,       \* heartbeat loop of each process: [up, pc, wait, down, cur, todo]
    shut,       \* graceful shutdown requests: [pc, proc, elapsed]
    migrated,   \* history: times a job was re-enqueued by migration since
                \* the heartbeat of its node was last published
    decode_responses, \* configuration: REDIS_URL asks the failover client
                \* (redis.from_url(settings.REDIS_URL)) for decoded replies
    accel,      \* one DownloadAccelerator.enhanced_download call and what the
                \* caller does with its result
    cluster_status, \* Redis cluster:status -> [present, age, down]
    cluster_reply,  \* body of the last GET /cluster/status
    monitoring, \* AdvancedMonitoring: clock, alert_history,
                \* _last_warning_time, the alerts its cycles produced, passed
                \* to the send step (sent) and delivered to a channel
                \* (posted); and whether cleanup_old_files was scheduled
    breaker,    \* one CircuitBreaker: state, failure_count,
                \* last_failure_time, the clock, and how its last call ended
    lock        \* Redis lock:<key> -> [owner, ttl], and the clients of
                \* DistributedLock.acquire on that key

lifeVars == <<job, task, revoked, db, cancelReq, mon, retried>>
clusterVars == <<hb, running_jobs, proc, shut, migrated, decode_responses, breaker, lock, accel,
      cluster_status, cluster_reply, monitoring>>
vars == <<job, task, revoked, db, cancelReq, mon, retried,
          hb, running_jobs, proc, shut, migrated, decode_responses, breaker, lock, accel,
      cluster_status, cluster_reply, monitoring>>

\* ------------------------------------------------------------ job records
\* A missing key is status "absent"; a boolean field says whether the key of
\* the JSON object is present.
NoJob ==
    [status |-> "absent", task_id |-> 0, url |-> FALSE, created_at |-> FALSE,
     started_at |-> FALSE, completed_at |-> FALSE, cancelled_at |-> FALSE,
     result |-> FALSE, error |-> "none", migration_note |-> FALSE,
     node_id |-> "unset", premium |-> FALSE]

\* job_data written by create_download_job / _create_single_job
NewJob(premium) ==
    [NoJob EXCEPT !.status = "pending", !.url = TRUE, !.created_at = TRUE,
                  !.premium = premium]

\* A task message: its args (job), where it is (st, node), its state in the
\* Celery result backend (state) and the countdown it was sent with.
NoTask == [job |-> 0, st |-> "none", node |-> 0, state |-> "PENDING",
           countdown |-> 0]
NoDb == [status |-> "absent", retry_count |-> 0, task_id |-> 0]
IdleCancel == [pc |-> "idle", job |-> 0, data |-> NoJob]
NoCelery == [status |-> "none", active_workers |-> 0, pending_jobs |-> 0]
IdleMon == [pc |-> "idle", failed |-> {}, celery |-> NoCelery]
NoHb == [status |-> "none", age |-> 0]
NoClusterStatus == [present |-> FALSE, age |-> 0, down |-> {}]

\* ------------------------------------------------------------ Celery side
FreeTasks == {t \in TaskIds : task[t].st = "none"}
Min(S) == CHOOSE x \in S : \A y \in S : x <= y

\* download_video.apply_async(args, countdown=...): a new message with a
\* fresh task id
apply_async_countdown(tk, j, countdown) ==
    LET t == Min({x \in TaskIds : tk[x].st = "none"})
    IN  [tk EXCEPT ![t] = [NoTask EXCEPT !.job = j, !.st = "queued",
                                         !.countdown = countdown]]

\* download_video.delay / apply_async with no countdown
apply_async(tk, j) == apply_async_countdown(tk, j, 0)

CanEnqueue == FreeTasks # {}

\* The message has left the workers: executed, dropped, terminated or lost.
Finished(tk, t, state) ==
    [tk EXCEPT ![t].st = "done", ![t].node = 0, ![t].state = state]

\* inspect.active(): the tasks workers are executing right now
ActiveTasks == {t \in TaskIds : task[t].st \in {"started", "running"}}

\* ---------------------------------------------------------------- worker
\* download_video.update_job_status: read job:<id>, overwrite status and
\* task_id, merge data, set started_at on the first "running", write back.
update_job_status(rec, t, status, data) ==
    LET merged == data @@ [rec EXCEPT !.status = status, !.task_id = t]
    IN  IF status = "running" /\ ~merged.started_at
        THEN [merged EXCEPT !.started_at = TRUE]
        ELSE merged

\* A worker of process (host) p receives the message; a revoked id is
\* dropped at receipt.
task_received(t, p) ==
    /\ task[t].st = "queued"
    /\ task' = IF t \in revoked THEN Finished(task, t, "REVOKED")
               ELSE [task EXCEPT ![t].st = "started", ![t].node = p,
                                 ![t].state = "STARTED"]
    /\ UNCHANGED <<job, revoked, db, cancelReq, mon, retried>>
    /\ UNCHANGED clusterVars

\* download_video up to update_job_status(job_id, "running", ...)
task_running(t) ==
    /\ task[t].st = "started"
    /\ job' = [job EXCEPT ![task[t].job] =
                  update_job_status(@, t, "running", <<>>)]
    /\ task' = [task EXCEPT ![t].st = "running", ![t].state = "PROGRESS"]
    /\ UNCHANGED <<revoked, db, cancelReq, mon, retried>>
    /\ UNCHANGED <<hb, proc, shut, migrated, decode_responses, breaker, lock, accel,
      cluster_status, cluster_reply, monitoring>>

\* _download_*_video returns: update_job_status(job_id, "success", {result})
task_success(t) ==
    /\ task[t].st = "running"
    /\ job' = [job EXCEPT ![task[t].job] =
                  update_job_status(@, t, "success", [result |-> TRUE])]
    /\ task' = Finished(task, t, "SUCCESS")
    /\ UNCHANGED <<revoked, db, cancelReq, mon, retried>>
    /\ UNCHANGED <<hb, proc, shut, migrated, decode_responses, breaker, lock, accel,
      cluster_status, cluster_reply, monitoring>>

\* except Exception: update_job_status(job_id, "failed", {error, completed_at})
\* and re-raise a plain Exception, which autoretry_for does not match.
task_failed(t, kind) ==
    /\ task[t].st = "running"
    /\ job' = [job EXCEPT ![task[t].job] =
                  update_job_status(@, t, "failed",
                                    [error |-> kind, completed_at |-> TRUE])]
    /\ task' = Finished(task, t, "FAILURE")
    /\ UNCHANGED <<revoked, db, cancelReq, mon, retried>>
    /\ UNCHANGED <<hb, proc, shut, migrated, decode_responses, breaker, lock, accel,
      cluster_status, cluster_reply, monitoring>>

\* revoke(terminate=True) reaches the worker executing the task: the child
\* process is signalled and writes nothing more.
task_terminated(t) ==
    /\ task[t].st \in {"started", "running"}
    /\ t \in revoked
    /\ task' = Finished(task, t, "REVOKED")
    /\ UNCHANGED <<job, revoked, db, cancelReq, mon, retried>>
    /\ UNCHANGED clusterVars

\* ------------------------------------------------------------- submission
\* job_id = str(uuid.uuid4()): an id no record and no task carries yet; the
\* model takes the least one.
Unused(j) == job[j].status = "absent" /\ \A t \in TaskIds : task[t].job # j
IsNewJobId(j, ids) == j \in ids /\ Unused(j) /\ \A k \in ids : Unused(k) => j <= k

get_job_limit(has_premium) ==
    IF has_premium THEN MAX_CONCURRENT_JOBS_PREMIUM
    ELSE MAX_CONCURRENT_JOBS_NORMAL

\* POST /download: 429 when the executing tasks reach the tier's limit,
\* otherwise store the pending job and enqueue its task.
create_download_job(j, premium) ==
    /\ Unused(j)
    /\ CanEnqueue
    /\ ~(Cardinality(ActiveTasks) >= get_job_limit(premium))
    /\ job' = [job EXCEPT ![j] = NewJob(premium)]
    /\ task' = apply_async(task, j)
    /\ UNCHANGED <<revoked, db, cancelReq, mon, retried>>
    /\ UNCHANGED clusterVars

\* _create_single_job, called by POST /batch-download for each url of a
\* premium caller: no limit check.
create_single_job(j) ==
    /\ Unused(j)
    /\ CanEnqueue
    /\ job' = [job EXCEPT ![j] = NewJob(TRUE)]
    /\ task' = apply_async(task, j)
    /\ UNCHANGED <<revoked, db, cancelReq, mon, retried>>
    /\ UNCHANGED clusterVars

\* POST /download/enhanced: enqueues the task and stores no job record.
enhanced_download(j) ==
    /\ Unused(j)
    /\ CanEnqueue
    /\ task' = apply_async(task, j)
    /\ UNCHANGED <<job, revoked, db, cancelReq, mon, retried>>
    /\ UNCHANGED clusterVars

\* ----------------------------------------------------------------- cancel
\* The ids cancel_job revokes: job_data.get("task_id", job_id). Without a
\* task_id in the record the job id is revoked, which is no task's id.
RevokeIds(data) == IF data.task_id # 0 THEN {data.task_id} ELSE {}

\* DELETE /job/{id}, first half: read job:<id> (404 when missing), revoke.
cancel_job_get(c, j) ==
    /\ cancelReq[c].pc = "idle"
    /\ job[j].status # "absent"
    /\ cancelReq' = [cancelReq EXCEPT ![c] =
                        [pc |-> "set", job |-> j, data |-> job[j]]]
    /\ revoked' = revoked \cup RevokeIds(job[j])
    /\ UNCHANGED <<job, task, db, mon, retried>>
    /\ UNCHANGED clusterVars

\* second half: write the record read above back with status "cancelled".
cancel_job_set(c) ==
    /\ cancelReq[c].pc = "set"
    /\ job' = [job EXCEPT ![cancelReq[c].job] =
                  [cancelReq[c].data EXCEPT !.status = "cancelled",
                                            !.cancelled_at = TRUE]]
    /\ cancelReq' = [cancelReq EXCEPT ![c] = IdleCancel]
    /\ UNCHANGED <<task, revoked, db, mon, retried>>
    /\ UNCHANGED clusterVars

\* ----------------------------------------------------------- status query
\* get_job_status: the status is converted from the Celery state of the task
\* named by the record (AsyncResult(job_data.get("task_id", job_id))); a job
\* id is the id of no task, whose state is then PENDING.
CeleryState(rec) == IF rec.task_id = 0 THEN "PENDING" ELSE task[rec.task_id].state

StatusOf(celery_status) ==
    CASE celery_status = "PENDING" -> "pending"
      [] celery_status \in {"STARTED", "PROGRESS"} -> "running"
      [] celery_status = "SUCCESS" -> "success"
      [] celery_status = "FAILURE" -> "failed"
      [] celery_status = "RETRY" -> "retrying"
      [] OTHER -> "pending"

\* The status of the response; 404 for no record, 500 when
\* datetime.fromisoformat(job_data.get("created_at")) raises.
get_job_status(j) ==
    IF job[j].status = "absent" THEN "404"
    ELSE IF ~job[j].created_at THEN "500"
    ELSE StatusOf(CeleryState(job[j]))

\* ------------------------------------------------------- job_records table
\* JobPersistenceService.create_job_record
create_job_record(j) ==
    /\ db[j].status = "absent"
    /\ db' = [db EXCEPT ![j] = [NoDb EXCEPT !.status = "pending"]]
    /\ UNCHANGED <<job, task, revoked, cancelReq, mon, retried>>
    /\ UNCHANGED clusterVars

\* JobPersistenceService.update_job_status: the status column, and task_id
\* when one is given (0: none); retry_count is not written.
db_update_job_status(d, j, status, task_id) ==
    IF d[j].status = "absent" THEN d
    ELSE [d EXCEPT ![j].status = status,
                   ![j].task_id = IF task_id # 0 THEN task_id ELSE @]

\* The callers of the two methods above: a row is created for a submitted
\* job, and each status a task execution wrote to the job is recorded once.
RecordJob(j) ==
    /\ job[j].status # "absent"
    /\ create_job_record(j)

RecordStatus(j) ==
    /\ db[j].status # "absent"
    /\ job[j].status \in {"running", "success", "failed"}
    /\ db[j].status # job[j].status
    /\ \/ job[j].task_id # db[j].task_id
       \/ db[j].status \in {"pending", "running"}
    /\ db' = db_update_job_status(db, j, job[j].status, job[j].task_id)
    /\ UNCHANGED <<job, task, revoked, cancelReq, mon, retried>>
    /\ UNCHANGED clusterVars

\* ---------------------------------------------------------- health monitor
\* _check_redis_health: "healthy", "warning" (slow ping, memory over 80 %,
\* more than 100 clients) or "critical" (memory over 90 %, or an exception)
RedisStatuses == {"healthy", "warning", "critical"}
\* ResourceMonitor.check_resource_limits
ResourceStatuses == {"ok", "warning", "critical"}

IdleMonitoring ==
    [cycles |-> 0, now |-> 0, alert_history |-> <<>>, arrived |-> <<>>,
     produced |-> {},
     last_warning_time |-> -1, sent |-> {}, posted |-> {},
     cleanup_scheduled |-> FALSE]

\* redis flushdb() on the database of REDIS_URL, which is also the Celery
\* broker's: every job:<id>, heartbeat:<id>, running_jobs:<id> and
\* cluster:status key goes, and so does every message still in the queue.
Flushed(tk) ==
    [t \in TaskIds |->
        IF tk[t].st = "queued" THEN Finished(tk, t, tk[t].state)[t] ELSE tk[t]]

\* _check_celery_health: len(inspect.stats()) and llen("celery"); the
\* backlog test comes after the worker test and overwrites its status.
backlog_limit == 100
WorkerCounts == {0, 1, 2}
Backlogs == {0, backlog_limit, backlog_limit + 1}
check_celery_health(total_workers, pending_jobs) ==
    LET by_workers == IF total_workers = 0 THEN "critical"
                      ELSE IF total_workers < 2 THEN "warning"
                      ELSE "healthy"
    IN  [status |-> IF pending_jobs > backlog_limit THEN "warning"
                    ELSE by_workers,
         active_workers |-> total_workers, pending_jobs |-> pending_jobs]

\* perform_health_checks up to the retry pass: _recover_redis when the store
\* is not "healthy" (flushdb, unless the call itself raises), and
\* _recover_resources, which schedules cleanup_old_files, when the resources
\* are "critical".
perform_health_checks(m, redis_status, flushdb_done, total_workers, pending_jobs, resource_status) ==
    /\ mon[m].pc = "idle"
    /\ mon' = [mon EXCEPT ![m].pc = "checked",
                          ![m].celery = check_celery_health(total_workers,
                                                            pending_jobs)]
    /\ IF redis_status # "healthy" /\ flushdb_done
       THEN /\ job' = [j \in JobIds |-> NoJob]
            /\ hb' = [k \in NodeIds |-> NoHb]
            /\ running_jobs' = [k \in NodeIds |-> {}]
            /\ cluster_status' = NoClusterStatus
            /\ task' = Flushed(task)
       ELSE UNCHANGED <<job, hb, running_jobs, cluster_status, task>>
    /\ monitoring' = [monitoring EXCEPT !.cleanup_scheduled =
                          @ \/ resource_status = "critical"]
    /\ UNCHANGED <<revoked, db, cancelReq, retried>>
    /\ UNCHANGED <<proc, shut, migrated, decode_responses, breaker, lock, accel, cluster_reply>>

\* JobPersistenceService.get_failed_jobs_for_retry
get_failed_jobs_for_retry ==
    {j \in JobIds : db[j].status = "failed" /\ db[j].retry_count < max_retries}

\* _retry_failed_jobs: the query
retry_failed_jobs_query(m) ==
    /\ mon[m].pc = "checked"
    /\ mon' = [mon EXCEPT ![m].pc = "loop",
                          ![m].failed = get_failed_jobs_for_retry]
    /\ UNCHANGED <<job, task, revoked, db, cancelReq, retried>>
    /\ UNCHANGED clusterVars

\* countdown=3600 // (job.retry_count + 1): the delay shrinks with the count
retry_countdown_divided(retry_count) == 3600 \div (retry_count + 1)

\* _retry_failed_jobs: countdown=60 * (job.retry_count + 1)
retry_countdown(retry_count) == 60 * (retry_count + 1)

\* A pass that would re-queue the job the way a migration does: the record
\* goes back to pending with no owner.
retry_failed_jobs_job_requeue(m, j) ==
    /\ mon[m].pc = "loop"
    /\ j \in mon[m].failed
    /\ CanEnqueue
    /\ task' = apply_async_countdown(task, j, retry_countdown(db[j].retry_count))
    /\ db' = db_update_job_status(db, j, "retrying", 0)
    /\ job' = [job EXCEPT ![j].status = "pending", ![j].node_id = "null"]
    /\ retried' = [retried EXCEPT ![j] = @ + 1]
    /\ mon' = [mon EXCEPT ![m].failed = @ \ {j}]
    /\ UNCHANGED <<revoked, cancelReq>>
    /\ UNCHANGED clusterVars

\* _retry_failed_jobs: one pass of the loop body. job.retry_count += 1
\* changes the object returned by the query, whose session is gone;
\* update_job_status commits the status "retrying" in a session of its own.
\* job.retry_count is the stored value, which nothing has written since the
\* query.
retry_failed_jobs_job(m, j) ==
    /\ mon[m].pc = "loop"
    /\ j \in mon[m].failed
    /\ CanEnqueue
    /\ task' = apply_async_countdown(task, j, retry_countdown(db[j].retry_count))
    /\ db' = db_update_job_status(db, j, "retrying", 0)
    /\ retried' = [retried EXCEPT ![j] = @ + 1]
    /\ mon' = [mon EXCEPT ![m].failed = @ \ {j}]
    /\ UNCHANGED <<job, revoked, cancelReq>>
    /\ UNCHANGED clusterVars

\* _retry_failed_jobs: the loop is over
retry_failed_jobs_return(m) ==
    /\ mon[m].pc = "loop"
    /\ mon[m].failed = {}
    /\ mon' = [mon EXCEPT ![m] = IdleMon]
    /\ UNCHANGED <<job, task, revoked, db, cancelReq, retried>>
    /\ UNCHANGED clusterVars

\* ------------------------------------------------- heartbeat and failover
\* Time is kept as ages, in seconds, and passes in steps of one heartbeat
\* interval.
StartProc ==
    [up |-> TRUE, pc |-> "sleep", wait |-> 0, down |-> {}, cur |-> 0, todo |-> {}]
IdleShut == [pc |-> "idle", proc |-> 0, elapsed |-> 0]

Max(a, b) == IF a >= b THEN a ELSE b
Least(a, b) == IF a <= b THEN a ELSE b

\* redis setex(key, ttl, value) with timestamp = utcnow(); the TTL is
\* 2 x heartbeat_interval for ACTIVE and 300 for MAINTENANCE
Publish(status) == [status |-> status, age |-> 0]
TTL(status) == IF status = "maintenance" THEN maintenance_ttl
               ELSE heartbeat_interval * 2

\* _update_cluster_status: setex cluster:status with the down nodes of this
\* cycle (every process is node 1, so the list has one node at most)
update_cluster_status(down_nodes) ==
    [present |-> TRUE, age |-> 0, down |-> down_nodes]

\* start_heartbeat: the loop wakes up after asyncio.sleep(heartbeat_interval)
\* _send_heartbeat: setex heartbeat:<node_id>
send_heartbeat(p) ==
    /\ proc[p].up /\ proc[p].pc = "sleep" /\ proc[p].wait = 0
    /\ hb' = [hb EXCEPT ![NodeId(p)] = Publish("active")]
    /\ migrated' = [j \in JobIds |-> 0]
    /\ proc' = [proc EXCEPT ![p].pc = "check"]
    /\ UNCHANGED <<running_jobs, shut, decode_responses, breaker, lock, accel,
      cluster_status, cluster_reply, monitoring>>
    /\ UNCHANGED lifeVars

\* _send_heartbeat: the store raises, the error is logged, the loop goes on
send_heartbeat_error(p) ==
    /\ proc[p].up /\ proc[p].pc = "sleep" /\ proc[p].wait = 0
    /\ proc' = [proc EXCEPT ![p].pc = "check"]
    /\ UNCHANGED <<hb, running_jobs, shut, migrated, decode_responses, breaker, lock, accel,
      cluster_status, cluster_reply, monitoring>>
    /\ UNCHANGED lifeVars

\* keys("heartbeat:*") and get: the keys that have not expired
LiveKeys == {k \in NodeIds : hb[k].status # "none"}
\* A classification that would give a node one heartbeat interval only
DownNodes_one_interval ==
    {k \in LiveKeys : ~(hb[k].age < heartbeat_interval)}
DownNodes == {k \in LiveKeys : ~(hb[k].age < failover_timeout)}

\* The loop is over: _update_cluster_status, asyncio.sleep(heartbeat_interval)
Asleep(pr) == [pr EXCEPT !.pc = "sleep", !.wait = heartbeat_interval,
                         !.down = {}, !.cur = 0, !.todo = {}]

\* _check_other_nodes: classify every heartbeat by its age
check_other_nodes(p) ==
    /\ proc[p].up /\ proc[p].pc = "check"
    /\ proc' = [proc EXCEPT ![p] = IF DownNodes # {}
                                   THEN [@ EXCEPT !.pc = "handle", !.down = DownNodes]
                                   ELSE Asleep(@)]
    /\ cluster_status' = IF DownNodes # {} THEN cluster_status
                         ELSE update_cluster_status({})
    /\ UNCHANGED <<hb, running_jobs, shut, migrated, decode_responses, breaker, lock, accel,
      cluster_reply, monitoring>>
    /\ UNCHANGED lifeVars

\* _migrate_jobs_from_node: smembers running_jobs:<failed_node_id>, for the
\* next node of down_nodes
migrate_read(p, k) ==
    /\ proc[p].up /\ proc[p].pc = "handle"
    /\ proc[p].cur = 0 /\ k \in proc[p].down
    /\ proc' = [proc EXCEPT ![p].cur = k, ![p].todo = running_jobs[k]]
    /\ UNCHANGED <<hb, running_jobs, shut, migrated, decode_responses, breaker, lock, accel,
      cluster_status, cluster_reply, monitoring>>
    /\ UNCHANGED lifeVars

\* job_info of the loop body: status "pending", node_id None, migration_note
MigratedRecord(rec) ==
    [rec EXCEPT !.status = "pending", !.node_id = "null", !.migration_note = TRUE]

\* redis.get(f"job:{job_id}") for a member of smembers: a client that does
\* not decode replies gets the member as bytes and formats the key as
\* job:b'<id>', which no record has.
GetJob(j) == IF decode_responses THEN job[j] ELSE NoJob

\* _migrate_jobs_from_node, one pass of the loop body: a job with no record
\* is skipped; the record is written back as pending; apply_async reads
\* job_info["url"], which raises for a record without url after the write.
migrate_job(p, j) ==
    /\ proc[p].up /\ proc[p].pc = "handle"
    /\ proc[p].cur # 0 /\ j \in proc[p].todo
    /\ proc' = [proc EXCEPT ![p].todo = @ \ {j}]
    /\ IF GetJob(j).status = "absent"
       THEN UNCHANGED <<job, task, migrated>>
       ELSE /\ job' = [job EXCEPT ![j] = MigratedRecord(GetJob(j))]
            /\ IF GetJob(j).url
               THEN /\ CanEnqueue
                    /\ task' = apply_async(task, j)
                    /\ migrated' = [migrated EXCEPT ![j] = @ + 1]
               ELSE UNCHANGED <<task, migrated>>
    /\ UNCHANGED <<hb, running_jobs, shut, decode_responses, breaker, lock, accel,
      cluster_status, cluster_reply, monitoring>>
    /\ UNCHANGED <<revoked, db, cancelReq, mon, retried>>

\* _migrate_jobs_from_node: delete running_jobs:<id>; then
\* _handle_node_failures: delete heartbeat:<id>, and go on to the next node
migrate_done(p) ==
    /\ proc[p].up /\ proc[p].pc = "handle"
    /\ proc[p].cur # 0 /\ proc[p].todo = {}
    /\ running_jobs' = [running_jobs EXCEPT ![proc[p].cur] = {}]
    /\ hb' = [hb EXCEPT ![proc[p].cur] = NoHb]
    /\ proc' = [proc EXCEPT ![p] = IF proc[p].down = {proc[p].cur}
                                   THEN Asleep(@)
                                   ELSE [@ EXCEPT !.cur = 0,
                                                  !.down = @ \ {proc[p].cur}]]
    /\ cluster_status' = IF proc[p].down = {proc[p].cur}
                         THEN update_cluster_status(proc[p].down)
                         ELSE cluster_status
    /\ UNCHANGED <<shut, migrated, decode_responses, breaker, lock, accel,
      cluster_reply, monitoring>>
    /\ UNCHANGED lifeVars

\* _get_active_jobs_count: len(keys("job:*"))
get_active_jobs_count == Cardinality({j \in JobIds : job[j].status # "absent"})

\* graceful_shutdown: publish the MAINTENANCE heartbeat with TTL 300
graceful_shutdown_publish(c, p) ==
    /\ proc[p].up /\ shut[c].pc = "idle"
    /\ hb' = [hb EXCEPT ![NodeId(p)] = Publish("maintenance")]
    /\ migrated' = [j \in JobIds |-> 0]
    /\ shut' = [shut EXCEPT ![c] = [pc |-> "wait", proc |-> p, elapsed |-> 0]]
    /\ UNCHANGED <<running_jobs, proc, decode_responses, breaker, lock, accel,
      cluster_status, cluster_reply, monitoring>>
    /\ UNCHANGED lifeVars

\* graceful_shutdown: _wait_for_jobs_completion returns when no job key is
\* left or after the timeout; then the heartbeat key is deleted
graceful_shutdown_delete(c) ==
    /\ shut[c].pc = "wait" /\ proc[shut[c].proc].up
    /\ get_active_jobs_count = 0 \/ ~(shut[c].elapsed < shutdown_timeout)
    /\ hb' = [hb EXCEPT ![NodeId(shut[c].proc)] = NoHb]
    /\ shut' = [shut EXCEPT ![c] = [pc |-> "done", proc |-> shut[c].proc,
                                    elapsed |-> 0]]
    /\ UNCHANGED <<running_jobs, proc, migrated, decode_responses, breaker, lock, accel,
      cluster_status, cluster_reply, monitoring>>
    /\ UNCHANGED lifeVars

\* The host of process p dies: its loop stops and the tasks its workers
\* were executing write nothing more.
crash(p) ==
    /\ proc[p].up /\ proc[p].pc = "sleep"
    /\ proc' = [proc EXCEPT ![p].up = FALSE]
    /\ task' = [t \in TaskIds |->
                    IF task[t].node = p /\ task[t].st \in {"started", "running"}
                    THEN Finished(task, t, task[t].state)[t] ELSE task[t]]
    /\ UNCHANGED <<hb, running_jobs, shut, migrated, decode_responses, breaker, lock, accel,
      cluster_status, cluster_reply, monitoring>>
    /\ UNCHANGED <<job, revoked, db, cancelReq, mon, retried>>

\* The writer of running_jobs:<node_id>: the worker owns the job from the
\* moment it marks it running until it completes or fails it.
Owned(t) == [running_jobs EXCEPT ![NodeId(task[t].node)] = @ \cup {task[t].job}]
Released(t) == [running_jobs EXCEPT ![NodeId(task[t].node)] = @ \ {task[t].job}]
worker_running(t) == task_running(t) /\ running_jobs' = Owned(t)
worker_success(t) == task_success(t) /\ running_jobs' = Released(t)

\* One heartbeat interval passes: keys age and expire, sleeps run down. A
\* loop that is due or in the middle of a cycle completes it first.
Aged(h) ==
    IF h.status = "none" \/ ~(h.age + heartbeat_interval < TTL(h.status))
    THEN NoHb
    ELSE [h EXCEPT !.age = @ + heartbeat_interval]

AgedStatus(c) ==
    IF ~c.present \/ ~(c.age + heartbeat_interval < cluster_status_ttl)
    THEN NoClusterStatus
    ELSE [c EXCEPT !.age = @ + heartbeat_interval]

Tick ==
    /\ \A p \in Procs : proc[p].up => proc[p].pc = "sleep" /\ proc[p].wait > 0
    /\ hb' = [k \in NodeIds |-> Aged(hb[k])]
    /\ proc' = [p \in Procs |->
                    [proc[p] EXCEPT !.wait = Max(@ - heartbeat_interval, 0)]]
    /\ shut' = [c \in Shutdowns |->
                    IF shut[c].pc = "wait"
                    THEN [shut[c] EXCEPT !.elapsed =
                              Least(@ + heartbeat_interval, shutdown_timeout)]
                    ELSE shut[c]]
    /\ cluster_status' = AgedStatus(cluster_status)
    /\ UNCHANGED <<running_jobs, migrated, decode_responses, breaker, lock, accel,
      cluster_reply, monitoring>>
    /\ UNCHANGED lifeVars

\* GET /cluster/status: FailoverService.get_cluster_status returns the stored
\* snapshot, or a dictionary with an "error" entry when the key is missing
\* or the store raises; it raises nothing itself, so the endpoint's
\* single-node reply for ImportError / AttributeError is never built.
NoReply == [key |-> "none", body |-> "none"]
ClusterReply(store_up) ==
    IF ~store_up THEN [key |-> "unreachable", body |-> "error"]
    ELSE IF cluster_status.present THEN [key |-> "present", body |-> "snapshot"]
    ELSE [key |-> "absent", body |-> "error"]

get_cluster_status(store_up) ==
    /\ cluster_reply' = ClusterReply(store_up)
    /\ UNCHANGED <<hb, running_jobs, proc, shut, migrated, decode_responses, breaker, lock,
                   accel, cluster_status, monitoring>>
    /\ UNCHANGED lifeVars

\* ------------------------------------------------------ alert monitoring
\* ResourceMonitor.get_system_stats: the values one cycle reads. The other
\* checks of a cycle (memory, response time, queue, workers, store, aria2)
\* read values under their thresholds.
CpuPercents == {50, 90}
DiskPercents == {50, 90, 97}

Alert(metric, severity) == [metric |-> metric, severity |-> severity]

\* _check_resource_alerts: the CPU alert, then the disk alert
check_resource_alerts(cpu_percent, disk_percent) ==
    (IF cpu_percent > cpu_critical THEN <<Alert("cpu", "critical")>>
     ELSE IF cpu_percent > cpu_warning THEN <<Alert("cpu", "warning")>>
     ELSE <<>>)
    \o
    (IF disk_percent > disk_critical THEN <<Alert("disk", "critical")>>
     ELSE IF disk_percent > disk_warning THEN <<Alert("disk", "warning")>>
     ELSE <<>>)

\* alert['timestamp'] = datetime.utcnow()
Stamped(alerts, t) ==
    [i \in 1..Len(alerts) |->
        [metric |-> alerts[i].metric, severity |-> alerts[i].severity,
         timestamp |-> t]]

IsCritical(a) == a.severity = "critical"
IsWarning(a) == a.severity = "warning"
Range(seq) == {seq[i] : i \in 1..Len(seq)}

\* A limit that would keep the oldest entries
SizeLimited_oldest(history) ==
    IF Len(history) > max_alert_history
    THEN SubSeq(history, 1, max_alert_history)
    ELSE history

\* _process_alerts: self.alert_history[-self.max_alert_history:] when the
\* history is longer than max_alert_history
SizeLimited(history) ==
    IF Len(history) > max_alert_history
    THEN SubSeq(history, Len(history) - max_alert_history + 1, Len(history))
    ELSE history

\* Only alerts that were passed on to a channel are kept in the history.
AppendHistory_notified(alert_history, alerts) ==
    SizeLimited(alert_history \o SelectSeq(alerts, IsCritical))

\* _process_alerts: every alert is appended, and the history keeps its
\* last max_alert_history entries.
AppendHistory(alert_history, alerts) == SizeLimited(alert_history \o alerts)

\* hasattr(settings, 'SLACK_WEBHOOK_URL') and hasattr(settings,
\* 'ALERT_EMAIL'): Settings declares neither field and ignores undeclared
\* variables, so neither attribute exists.
HasSlack == FALSE
HasEmail == FALSE

\* _send_slack_alert posts the first five alerts of the list and a count of
\* the others; _send_email_alert lists all of them.
SlackPosted(alerts) ==
    IF HasSlack THEN Range(SubSeq(alerts, 1, Least(Len(alerts), slack_fields)))
    ELSE {}
EmailPosted(alerts) == IF HasEmail THEN Range(alerts) ELSE {}

\* _send_warning_alerts: no warning was passed on before, or the last one
\* more than 300 s ago
WarningDue(last_warning_time, t) ==
    last_warning_time = -1 \/ t - last_warning_time > warning_resend_seconds

\* continuous_monitoring, one cycle: _perform_health_assessment reads the
\* values, _process_alerts appends the alerts to the history, passes the
\* critical ones on at once and the warning ones when they are due; then
\* asyncio.sleep(60). produced is the history of all alerts the checks of
\* all cycles returned, and arrived the same in the order of their arrival.
perform_health_assessment(cpu_percent, disk_percent) ==
    LET t == monitoring.now + assessment_seconds
        alerts == Stamped(check_resource_alerts(cpu_percent, disk_percent), t)
        critical_alerts == SelectSeq(alerts, IsCritical)
        warning_alerts == SelectSeq(alerts, IsWarning)
        due == warning_alerts # <<>>
               /\ WarningDue(monitoring.last_warning_time, t)
    IN  /\ monitoring' =
              [monitoring EXCEPT
                 !.cycles = @ + 1,
                 !.now = t + monitoring_interval,
                 !.alert_history = AppendHistory(@, alerts),
                 !.arrived = @ \o alerts,
                 !.produced = @ \cup Range(alerts),
                 !.sent = @ \cup Range(critical_alerts)
                            \cup (IF due THEN Range(warning_alerts) ELSE {}),
                 !.posted = @ \cup SlackPosted(critical_alerts)
                              \cup EmailPosted(critical_alerts)
                              \cup (IF due THEN SlackPosted(warning_alerts)
                                    ELSE {}),
                 !.last_warning_time = IF due THEN t ELSE @]
        /\ UNCHANGED <<hb, running_jobs, proc, shut, migrated, decode_responses, breaker, lock,
                       accel, cluster_status, cluster_reply>>
        /\ UNCHANGED lifeVars

\* ------------------------------------------------ download strategy selector
Methods == {"aria2", "segmented", "parallel", "standard"}

\* fmt.get('protocol') of one entry of video_info['formats']; "null" is an
\* entry that is not a dictionary, on which fmt.get raises.
Protocols == {"m3u8", "http_dash_segments", "https", "null"}
FormatLists == UNION {[1..n -> Protocols] : n \in 0..MaxFormats}

threshold_bytes == ARIA2_THRESHOLD_MB * 1024 * 1024
Filesizes == {0, threshold_bytes, threshold_bytes + 1}
Durations == {0, long_duration, long_duration + 1}

Options == [force_aria2 : BOOLEAN, force_standard : BOOLEAN,
            force_parallel : BOOLEAN]
VideoInfos == [filesize : Filesizes, formats : FormatLists,
               duration : Durations]

\* What the size rule finds: the daemon answers getVersion ("up"), it does
\* not (check_aria2_status returns False, "down"), or the service module
\* could not be imported (_get_aria2_service returns None, "none").
Aria2States == {"up", "down", "none"}

NoOptions == [force_aria2 |-> FALSE, force_standard |-> FALSE,
              force_parallel |-> FALSE]
NoVideoInfo == [filesize |-> 0, formats |-> <<>>, duration |-> 0]
IdleAccel == [pc |-> "idle", options |-> NoOptions,
              video_info |-> NoVideoInfo, aria2_enabled |-> FALSE,
              aria2_state |-> "none", calls |-> 0, method |-> "none",
              answers |-> {},
              outcome |-> "none", status |-> "none",
              standard_attempts |-> 0, surfaced |-> "none"]

\* The loop over formats: the first entry, in list order, that is HLS or
\* DASH decides; an entry that is not a dictionary raises.
RECURSIVE format_rule(_)
format_rule(formats) ==
    IF formats = <<>> THEN "continue"
    ELSE IF Head(formats) = "null" THEN "raise"
    ELSE IF Head(formats) \in {"m3u8", "hls", "m3u8_native"} THEN "segmented"
    ELSE IF Head(formats) \in {"http_dash_segments"} THEN "parallel"
    ELSE format_rule(Tail(formats))

\* The body of the try block of _determine_download_method.
determine_rules(options, video_info, aria2_enabled, aria2_state) ==
    IF options.force_aria2 /\ aria2_enabled THEN "aria2"
    ELSE IF options.force_standard THEN "standard"
    ELSE IF options.force_parallel THEN "parallel"
    ELSE IF ~aria2_enabled THEN "standard"
    ELSE IF video_info.filesize > threshold_bytes /\ aria2_state = "up"
         THEN "aria2"
    ELSE IF video_info.filesize > threshold_bytes /\ aria2_state = "down"
         THEN "parallel"
    ELSE IF format_rule(video_info.formats) # "continue"
         THEN format_rule(video_info.formats)
    ELSE IF video_info.duration > long_duration THEN "parallel"
    ELSE "standard"

determine_download_method_no_return(options, video_info, aria2_enabled, aria2_state) ==
    LET m == determine_rules(options, video_info, aria2_enabled, aria2_state)
    IN  IF m = "raise" THEN "none" ELSE m

\* _determine_download_method: the rules, and "standard" when they raise.
determine_download_method(options, video_info, aria2_enabled, aria2_state) ==
    LET m == determine_rules(options, video_info, aria2_enabled, aria2_state)
    IN  IF m = "raise" THEN "standard" ELSE m

\* DownloadAccelerator.enhanced_download, up to the choice of the method.
DownloadAccelerator_enhanced_download(options, video_info, aria2_enabled, aria2_state) ==
    /\ accel.pc = "idle"
    /\ accel' = [IdleAccel EXCEPT
                   !.pc = "selected", !.options = options,
                   !.video_info = video_info,
                   !.aria2_enabled = aria2_enabled,
                   !.aria2_state = aria2_state, !.calls = 1,
                   !.method = determine_download_method(
                       options, video_info, aria2_enabled, aria2_state),
                   !.answers = {determine_download_method(
                       options, video_info, aria2_enabled, aria2_state)}]
    /\ UNCHANGED <<hb, running_jobs, proc, shut, migrated, decode_responses, breaker, lock,
      cluster_status, cluster_reply, monitoring>>
    /\ UNCHANGED lifeVars

\* The selector is asked again about the same download; answers collects
\* what it has said about this download.
determine_again ==
    /\ accel.pc = "selected"
    /\ accel.calls < MaxCalls
    /\ accel' = [accel EXCEPT
                   !.calls = @ + 1,
                   !.method = determine_download_method(
                       accel.options, accel.video_info,
                       accel.aria2_enabled, accel.aria2_state),
                   !.answers = @ \cup {determine_download_method(
                       accel.options, accel.video_info,
                       accel.aria2_enabled, accel.aria2_state)}]
    /\ UNCHANGED <<hb, running_jobs, proc, shut, migrated, decode_responses, breaker, lock,
      cluster_status, cluster_reply, monitoring>>
    /\ UNCHANGED lifeVars

\* How an aria2 download ends: no gid from addUri ("no_gid"), or
\* wait_for_completion returns success, the daemon's error ("failed"), a
\* failed status call ("error") or the 3600 s limit ("timeout").
Aria2Outcomes == {"no_gid", "success", "failed", "error", "timeout"}

aria2_result(outcome) ==
    IF outcome = "no_gid" THEN "fallback_to_ytdlp"
    ELSE IF outcome = "success" THEN "success"
    ELSE "failed"

Returned(outcome, status) ==
    [accel EXCEPT !.pc = "returned", !.outcome = outcome, !.status = status]

download_with_aria2(outcome) ==
    /\ accel.pc = "selected"
    /\ accel.method = "aria2" /\ accel.aria2_enabled
    /\ accel' = Returned(outcome, aria2_result(outcome))
    /\ UNCHANGED <<hb, running_jobs, proc, shut, migrated, decode_responses, breaker, lock,
      cluster_status, cluster_reply, monitoring>>
    /\ UNCHANGED lifeVars

\* yt-dlp with fragment options: files were written, or none / an exception.
YtdlpOutcomes == {"success", "error"}

ytdlp_result(outcome) ==
    IF outcome = "success" THEN "success" ELSE "fallback_to_ytdlp"

download_segmented(outcome) ==
    /\ accel.pc = "selected"
    /\ accel.method = "segmented"
    /\ accel' = Returned(outcome, ytdlp_result(outcome))
    /\ UNCHANGED <<hb, running_jobs, proc, shut, migrated, decode_responses, breaker, lock,
      cluster_status, cluster_reply, monitoring>>
    /\ UNCHANGED lifeVars

download_parallel(outcome) ==
    /\ accel.pc = "selected"
    /\ accel.method = "parallel"
    /\ accel' = Returned(outcome, ytdlp_result(outcome))
    /\ UNCHANGED <<hb, running_jobs, proc, shut, migrated, decode_responses, breaker, lock,
      cluster_status, cluster_reply, monitoring>>
    /\ UNCHANGED lifeVars

\* The else branch of enhanced_download: no enhanced method.
no_enhanced_method ==
    /\ accel.pc = "selected"
    /\ ~(accel.method = "aria2" /\ accel.aria2_enabled)
    /\ accel.method \notin {"segmented", "parallel"}
    /\ accel' = Returned("none", "fallback_to_ytdlp")
    /\ UNCHANGED <<hb, running_jobs, proc, shut, migrated, decode_responses, breaker, lock,
      cluster_status, cluster_reply, monitoring>>
    /\ UNCHANGED lifeVars

\* The caller of enhanced_download: a result that asks for yt-dlp gets one
\* standard download, whose end is the end of the attempt; it does not touch
\* retry_count.
executor_standard(outcome) ==
    /\ accel.pc = "returned"
    /\ accel.status = "fallback_to_ytdlp"
    /\ accel' = [accel EXCEPT
                   !.pc = "done", !.standard_attempts = @ + 1,
                   !.surfaced = IF outcome = "success" THEN "success"
                                ELSE "failed"]
    /\ UNCHANGED <<hb, running_jobs, proc, shut, migrated, decode_responses, breaker, lock,
      cluster_status, cluster_reply, monitoring>>
    /\ UNCHANGED lifeVars

\* The caller of enhanced_download: any other result is the end of the
\* attempt.
executor_surface ==
    /\ accel.pc = "returned"
    /\ accel.status # "fallback_to_ytdlp"
    /\ accel' = [accel EXCEPT !.pc = "done", !.surfaced = accel.status]
    /\ UNCHANGED <<hb, running_jobs, proc, shut, migrated, decode_responses, breaker, lock,
      cluster_status, cluster_reply, monitoring>>
    /\ UNCHANGED lifeVars

\* ---------------------------------------------------------- circuit breaker
\* CircuitBreaker.__init__ with its default arguments; last_failure_time -1
\* is None. last, streak and calls are history: how the last call ended, the
\* expected failures since the last call that returned, the calls made.
BreakerStates == {"closed", "open", "half_open"}
NewBreaker ==
    [state |-> "closed", failure_count |-> 0, last_failure_time |-> -1,
     now |-> 0, last |-> "none", streak |-> 0, calls |-> 0]

\* What the protected function does: it returns, raises expected_exception,
\* or raises something that expected_exception does not match (with the
\* default, Exception, a BaseException such as KeyboardInterrupt).
FuncOutcomes == {"returns", "raises_expected", "raises_other"}

\* time.time() between two calls: just under the recovery timeout, or just
\* that
Delays == {recovery_timeout - 1, recovery_timeout}

\* A test that would let a trial through as soon as one failure is on record
should_try_reset_any(b) == b.last_failure_time # -1

\* _should_try_reset
should_try_reset(b) ==
    /\ b.last_failure_time # -1
    /\ b.now - b.last_failure_time >= recovery_timeout

\* _on_success
on_success(b) == [b EXCEPT !.failure_count = 0, !.state = "closed"]

\* A failure that would open the circuit only at the threshold itself
on_failure_at_threshold(b) ==
    [b EXCEPT !.failure_count = @ + 1,
              !.last_failure_time = b.now,
              !.state = IF b.failure_count + 1 = failure_threshold
                        THEN "open" ELSE @]

\* _on_failure
on_failure(b) ==
    [b EXCEPT !.failure_count = @ + 1,
              !.last_failure_time = b.now,
              !.state = IF b.failure_count + 1 >= failure_threshold
                        THEN "open" ELSE @]

\* CircuitBreaker.call
CircuitBreaker_call(outcome) ==
    LET rejected == breaker.state = "open" /\ ~should_try_reset(breaker)
        tried == IF breaker.state = "open"
                 THEN [breaker EXCEPT !.state = "half_open"]
                 ELSE breaker
        after == IF outcome = "returns" THEN on_success(tried)
                 ELSE IF outcome = "raises_expected" THEN on_failure(tried)
                 ELSE tried
    IN  /\ breaker.calls < MaxBreakerCalls
        /\ breaker' =
              IF rejected
              THEN [breaker EXCEPT !.last = "rejected", !.calls = @ + 1]
              ELSE [after EXCEPT
                      !.last = outcome, !.calls = @ + 1,
                      !.streak = IF outcome = "returns" THEN 0
                                 ELSE IF outcome = "raises_expected" THEN @ + 1
                                 ELSE @]
        /\ UNCHANGED <<lock, accel, cluster_status, cluster_reply, monitoring>>
        /\ UNCHANGED <<hb, running_jobs, proc, shut, migrated, decode_responses>>
        /\ UNCHANGED lifeVars

\* time.time() moves on between two calls
breaker_clock(delay) ==
    /\ breaker.now + delay <= MaxClock
    /\ breaker' = [breaker EXCEPT !.now = @ + delay]
    /\ UNCHANGED <<lock, accel, cluster_status, cluster_reply, monitoring>>
    /\ UNCHANGED <<hb, running_jobs, proc, shut, migrated, decode_responses>>
    /\ UNCHANGED lifeVars

\* --------------------------------------------------------- distributed lock
\* Each client is one DistributedLock instance; its lock_id is written as the
\* client's number, and owner 0 is a missing key. Time passes in steps of
\* blocking_timeout. acquired, released and deleted are history: the clients
\* whose SET NX succeeded, those that ran _release_lock, and the deletions
\* of the key by a release (by whom, whose lock it was).
Clients == 1..MaxClients
NoLock ==
    [owner |-> 0, ttl |-> 0,
     pc |-> [c \in Clients |-> "idle"],
     waited |-> [c \in Clients |-> 0],
     auto_renewal |-> [c \in Clients |-> FALSE],
     acquired |-> {}, released |-> {}, deleted |-> {}]

\* acquire is entered: _acquire_lock computes end_time
DistributedLock_acquire(c, auto_renewal) ==
    /\ lock.pc[c] = "idle"
    /\ lock' = [lock EXCEPT !.pc[c] = "trying",
                            !.auto_renewal[c] = auto_renewal]
    /\ UNCHANGED <<breaker, accel, cluster_status, cluster_reply, monitoring>>
    /\ UNCHANGED <<hb, running_jobs, proc, shut, migrated, decode_responses>>
    /\ UNCHANGED lifeVars

\* _acquire_lock: SET lock:<key> lock_id NX EX timeout succeeds before
\* end_time; _start_renewal_task does nothing; the with-block is entered
acquire_lock(c) ==
    /\ lock.pc[c] = "trying" /\ lock.waited[c] < blocking_timeout
    /\ lock.owner = 0
    /\ lock' = [lock EXCEPT !.owner = c, !.ttl = lock_timeout,
                            !.pc[c] = "inside",
                            !.acquired = @ \cup {c}]
    /\ UNCHANGED <<breaker, accel, cluster_status, cluster_reply, monitoring>>
    /\ UNCHANGED <<hb, running_jobs, proc, shut, migrated, decode_responses>>
    /\ UNCHANGED lifeVars

\* _acquire_lock returns False at end_time: acquire raises TimeoutError, and
\* its finally block, with lock_acquired False, releases nothing
acquire_timeout(c) ==
    /\ lock.pc[c] = "trying" /\ ~(lock.waited[c] < blocking_timeout)
    /\ lock' = [lock EXCEPT !.pc[c] = "failed"]
    /\ UNCHANGED <<breaker, accel, cluster_status, cluster_reply, monitoring>>
    /\ UNCHANGED <<hb, running_jobs, proc, shut, migrated, decode_responses>>
    /\ UNCHANGED lifeVars

\* A release that would delete the key whoever holds it
release_script_del(owner, lock_id) == 0

\* The Lua script of _release_lock: the key after it has run
release_script(owner, lock_id) == IF owner = lock_id THEN 0 ELSE owner

\* The with-block is left: the finally block of acquire calls _release_lock;
\* when eval raises, the error is logged and the key stays
release_lock(c, store_up) ==
    LET after == IF store_up THEN release_script(lock.owner, c) ELSE lock.owner
    IN  /\ lock.pc[c] = "inside"
        /\ lock' = [lock EXCEPT
                       !.owner = after,
                       !.ttl = IF after = 0 THEN 0 ELSE @,
                       !.pc[c] = "done",
                       !.released = @ \cup {c},
                       !.deleted = IF lock.owner # 0 /\ after = 0
                                   THEN @ \cup {[by |-> c, was |-> lock.owner]}
                                   ELSE @]
        /\ UNCHANGED <<breaker, accel, cluster_status, cluster_reply, monitoring>>
        /\ UNCHANGED <<hb, running_jobs, proc, shut, migrated, decode_responses>>
        /\ UNCHANGED lifeVars

\* blocking_timeout seconds pass: the key comes nearer to its expiry and
\* expires, and the clients that are trying reach their end_time. Nothing
\* renews the key.
lock_clock ==
    /\ lock.owner # 0 \/ \E c \in Clients : lock.pc[c] = "trying"
    /\ \A c \in Clients :
          lock.pc[c] = "trying" => lock.waited[c] < blocking_timeout
    /\ lock' = [lock EXCEPT
                   !.ttl = Max(@ - blocking_timeout, 0),
                   !.owner = IF lock.ttl - blocking_timeout > 0 THEN @ ELSE 0,
                   !.waited = [c \in Clients |->
                                  IF lock.pc[c] = "trying"
                                  THEN blocking_timeout ELSE @[c]]]
    /\ UNCHANGED <<breaker, accel, cluster_status, cluster_reply, monitoring>>
    /\ UNCHANGED <<hb, running_jobs, proc, shut, migrated, decode_responses>>
    /\ UNCHANGED lifeVars

\* ---------------------------------------------------------- specification
Init ==
    /\ job = [j \in JobIds |-> NoJob]
    /\ task = [t \in TaskIds |-> NoTask]
    /\ revoked = {}
    /\ db = [j \in JobIds |-> NoDb]
    /\ cancelReq = [c \in Cancels |-> IdleCancel]
    /\ mon = [m \in Monitors |-> IdleMon]
    /\ retried = [j \in JobIds |-> 0]
    /\ hb = [k \in NodeIds |-> NoHb]
    /\ running_jobs = [k \in NodeIds |-> {}]
    /\ proc = [p \in Procs |-> StartProc]
    /\ shut = [c \in Shutdowns |-> IdleShut]
    /\ migrated = [j \in JobIds |-> 0]
    /\ decode_responses \in BOOLEAN
    /\ accel = IdleAccel
    /\ cluster_status = NoClusterStatus
    /\ cluster_reply = NoReply
    /\ monitoring = IdleMonitoring
    /\ breaker = NewBreaker
    /\ lock = NoLock

\* Job lifecycle: submission, execution and cancellation.
Next ==
    \/ \E j \in OneJob, p \in BOOLEAN : IsNewJobId(j, OneJob) /\ create_download_job(j, p)
    \/ \E j \in OneJob : IsNewJobId(j, OneJob) /\ create_single_job(j)
    \/ \E j \in OneJob : IsNewJobId(j, OneJob) /\ enhanced_download(j)
    \/ \E t \in TaskIds : task_received(t, 1)
    \/ \E t \in TaskIds : task_running(t) /\ UNCHANGED running_jobs
    \/ \E t \in TaskIds : task_success(t) /\ UNCHANGED running_jobs
    \/ \E t \in TaskIds, k \in ErrorKinds :
           task_failed(t, k) /\ UNCHANGED running_jobs
    \/ \E t \in TaskIds : task_terminated(t)
    \/ \E c \in Cancels, j \in OneJob : cancel_job_get(c, j)
    \/ \E c \in Cancels : cancel_job_set(c)

Spec == Init /\ [][Next]_vars

\* Failed-job retry of the health monitor, with the job table.
NextRetry ==
    \/ \E j \in OneJob, p \in BOOLEAN : IsNewJobId(j, OneJob) /\ create_download_job(j, p)
    \/ \E t \in TaskIds : task_received(t, 1)
    \/ \E t \in TaskIds : task_running(t) /\ UNCHANGED running_jobs
    \/ \E t \in TaskIds : task_success(t) /\ UNCHANGED running_jobs
    \/ \E t \in TaskIds, k \in ErrorKinds :
           task_failed(t, k) /\ UNCHANGED running_jobs
    \/ \E j \in OneJob : RecordJob(j)
    \/ \E j \in OneJob : RecordStatus(j)
    \/ \E m \in Monitors : perform_health_checks(m, "healthy", FALSE, 2, 0, "ok")
    \/ \E m \in Monitors : retry_failed_jobs_query(m)
    \/ \E m \in Monitors, j \in JobIds : retry_failed_jobs_job(m, j)
    \/ \E m \in Monitors : retry_failed_jobs_return(m)

SpecRetry == Init /\ [][NextRetry]_vars

\* The retry pass of one health monitor on a job that keeps failing.
OneMonitor == {1}
NextBackoff ==
    \/ \E j \in OneJob : IsNewJobId(j, OneJob) /\ create_download_job(j, FALSE)
    \/ \E t \in TaskIds : task_received(t, 1)
    \/ \E t \in TaskIds : task_running(t) /\ UNCHANGED running_jobs
    \/ \E t \in TaskIds, k \in ErrorKinds :
           task_failed(t, k) /\ UNCHANGED running_jobs
    \/ \E j \in OneJob : RecordJob(j)
    \/ \E j \in OneJob : RecordStatus(j)
    \/ \E m \in OneMonitor : perform_health_checks(m, "healthy", FALSE, 2, 0, "ok")
    \/ \E m \in OneMonitor : retry_failed_jobs_query(m)
    \/ \E m \in OneMonitor, j \in JobIds : retry_failed_jobs_job(m, j)
    \/ \E m \in OneMonitor : retry_failed_jobs_return(m)

SpecBackoff == Init /\ [][NextBackoff]_vars

\* One job and one health monitor whose checks can find the store and the
\* resources in any condition.
NextHealth ==
    \/ \E j \in OneJob : IsNewJobId(j, OneJob) /\ create_download_job(j, FALSE)
    \/ \E t \in TaskIds : task_received(t, 1)
    \/ \E t \in TaskIds : task_running(t) /\ UNCHANGED running_jobs
    \/ \E t \in TaskIds : task_success(t) /\ UNCHANGED running_jobs
    \/ \E t \in TaskIds, k \in ErrorKinds :
           task_failed(t, k) /\ UNCHANGED running_jobs
    \/ \E j \in OneJob : RecordJob(j)
    \/ \E j \in OneJob : RecordStatus(j)
    \/ \E m \in OneMonitor, redis_status \in RedisStatuses,
          flushdb_done \in BOOLEAN, total_workers \in WorkerCounts,
          pending_jobs \in Backlogs, resource_status \in ResourceStatuses :
           perform_health_checks(m, redis_status, flushdb_done, total_workers,
                                 pending_jobs, resource_status)
    \/ \E m \in OneMonitor : retry_failed_jobs_query(m)
    \/ \E m \in OneMonitor, j \in JobIds : retry_failed_jobs_job(m, j)
    \/ \E m \in OneMonitor : retry_failed_jobs_return(m)

SpecHealth == Init /\ [][NextHealth]_vars

\* Admission at the submission endpoints.
NextAdmission ==
    \/ \E j \in JobIds, p \in BOOLEAN : IsNewJobId(j, JobIds) /\ create_download_job(j, p)
    \/ \E j \in JobIds : IsNewJobId(j, JobIds) /\ create_single_job(j)
    \/ \E j \in JobIds : IsNewJobId(j, JobIds) /\ enhanced_download(j)
    \/ \E t \in TaskIds : task_received(t, 1)
    \/ \E t \in TaskIds : task_running(t) /\ UNCHANGED running_jobs
    \/ \E t \in TaskIds : task_success(t) /\ UNCHANGED running_jobs
    \/ \E t \in TaskIds, k \in ErrorKinds :
           task_failed(t, k) /\ UNCHANGED running_jobs

SpecAdmission == Init /\ [][NextAdmission]_vars

\* Heartbeat loops, failover and graceful shutdown, with one job.
NextCluster ==
    \/ \E j \in OneJob : IsNewJobId(j, OneJob) /\ create_download_job(j, FALSE)
    \/ \E t \in TaskIds, p \in Procs : proc[p].up /\ task_received(t, p)
    \/ \E t \in TaskIds : worker_running(t)
    \/ \E t \in TaskIds : worker_success(t)
    \/ \E p \in Procs : send_heartbeat(p)
    \/ \E p \in Procs : send_heartbeat_error(p)
    \/ \E p \in Procs : check_other_nodes(p)
    \/ \E p \in Procs, k \in NodeIds : migrate_read(p, k)
    \/ \E p \in Procs, j \in JobIds :
           /\ Cardinality(TaskIds \ FreeTasks) <= MaxMigrations
           /\ migrate_job(p, j)
    \/ \E p \in Procs : migrate_done(p)
    \/ \E c \in Shutdowns, p \in Procs : graceful_shutdown_publish(c, p)
    \/ \E c \in Shutdowns : graceful_shutdown_delete(c)
    \/ \E p \in Procs : crash(p)
    \/ Tick

SpecCluster == Init /\ [][NextCluster]_vars

\* The same with scheduling: time passes for ever, every heartbeat loop
\* that is up takes its next step, every publication that is attempted again
\* and again succeeds again and again, and workers take their next step.
Beat(p) ==
    \/ send_heartbeat(p) \/ send_heartbeat_error(p) \/ check_other_nodes(p)
    \/ \E k \in NodeIds : migrate_read(p, k)
    \/ \E j \in JobIds : migrate_job(p, j)
    \/ migrate_done(p)

Work ==
    \/ \E t \in TaskIds, p \in Procs : proc[p].up /\ task_received(t, p)
    \/ \E t \in TaskIds : worker_running(t)
    \/ \E t \in TaskIds : worker_success(t)

FairCluster ==
    /\ SpecCluster
    /\ []<><<Tick>>_vars
    /\ WF_vars(Work)
    /\ \A p \in Procs : WF_vars(Beat(p)) /\ SF_vars(send_heartbeat(p))

\* The heartbeat loops and the cluster status query.
NextStatus ==
    \/ \E p \in Procs : send_heartbeat(p)
    \/ \E p \in Procs : send_heartbeat_error(p)
    \/ \E p \in Procs : check_other_nodes(p)
    \/ \E p \in Procs : crash(p)
    \/ Tick
    \/ \E store_up \in BOOLEAN : get_cluster_status(store_up)

SpecStatus == Init /\ [][NextStatus]_vars

\* The monitoring loop.
NextMonitoring ==
    /\ monitoring.cycles < MaxCycles
    /\ \E cpu_percent \in CpuPercents, disk_percent \in DiskPercents :
           perform_health_assessment(cpu_percent, disk_percent)

SpecMonitoring == Init /\ [][NextMonitoring]_vars

\* The monitoring loop beside a health monitor that finds the store healthy
\* and no failed job to retry.
NextMonitoringRecovery ==
    \/ /\ monitoring.cycles < MaxCycles
       /\ \E cpu_percent \in CpuPercents, disk_percent \in DiskPercents :
              perform_health_assessment(cpu_percent, disk_percent)
    \/ \E m \in OneMonitor, resource_status \in ResourceStatuses :
           perform_health_checks(m, "healthy", FALSE, 2, 0, resource_status)
    \/ \E m \in OneMonitor : retry_failed_jobs_query(m)
    \/ \E m \in OneMonitor : retry_failed_jobs_return(m)

SpecMonitoringRecovery == Init /\ [][NextMonitoringRecovery]_vars

\* The monitoring loop on a host whose disk stays over the critical limit
\* and whose CPU goes over the warning limit after the first cycle: one
\* alert in the first cycle, two in each cycle after it.
NextHistory ==
    /\ monitoring.cycles < MaxHistoryCycles
    /\ perform_health_assessment(IF monitoring.cycles = 0 THEN 50 ELSE 90, 97)

SpecHistory == Init /\ [][NextHistory]_vars

\* One job between its workers, one health monitor and the heartbeat loop
\* of one process, with its failover and a graceful shutdown; the hosts of
\* the other processes die.
OneProc == {1}
worker_failed(t, kind) == task_failed(t, kind) /\ running_jobs' = Released(t)

NextPolicy ==
    \/ \E j \in OneJob : IsNewJobId(j, OneJob) /\ create_download_job(j, FALSE)
    \/ \E t \in TaskIds, p \in Procs : proc[p].up /\ task_received(t, p)
    \/ \E t \in TaskIds : worker_running(t)
    \/ \E t \in TaskIds : worker_failed(t, "transient")
    \/ \E j \in OneJob : RecordJob(j)
    \/ \E j \in OneJob : RecordStatus(j)
    \/ \E p \in OneProc : send_heartbeat(p)
    \/ \E p \in OneProc : send_heartbeat_error(p)
    \/ \E p \in OneProc : check_other_nodes(p)
    \/ \E p \in OneProc, k \in NodeIds : migrate_read(p, k)
    \/ \E p \in OneProc, j \in JobIds :
           /\ Cardinality(TaskIds \ FreeTasks) <= MaxMigrations
           /\ migrate_job(p, j)
    \/ \E p \in OneProc : migrate_done(p)
    \/ \E c \in Shutdowns, p \in OneProc : graceful_shutdown_publish(c, p)
    \/ \E p \in Procs \ OneProc : crash(p)
    \/ Tick
    \/ \E m \in OneMonitor, redis_status \in RedisStatuses,
          flushdb_done \in BOOLEAN :
           perform_health_checks(m, redis_status, flushdb_done, 2, 0, "ok")
    \/ \E m \in OneMonitor : retry_failed_jobs_query(m)
    \/ \E m \in OneMonitor, j \in JobIds :
           /\ Cardinality(TaskIds \ FreeTasks) <= MaxMigrations
           /\ retry_failed_jobs_job(m, j)
    \/ \E m \in OneMonitor : retry_failed_jobs_return(m)

SpecPolicy == Init /\ [][NextPolicy]_vars

\* One circuit breaker, called again and again as time passes.
NextBreaker ==
    \/ \E outcome \in FuncOutcomes : CircuitBreaker_call(outcome)
    \/ \E delay \in Delays : breaker_clock(delay)

SpecBreaker == Init /\ [][NextBreaker]_vars

\* The clients of one lock key.
NextLock ==
    \/ \E c \in Clients, auto_renewal \in BOOLEAN :
           DistributedLock_acquire(c, auto_renewal)
    \/ \E c \in Clients : acquire_lock(c)
    \/ \E c \in Clients : acquire_timeout(c)
    \/ \E c \in Clients, store_up \in BOOLEAN : release_lock(c, store_up)
    \/ lock_clock

SpecLock == Init /\ [][NextLock]_vars

\* One download through the accelerator.
NextSelect ==
    \/ /\ accel.pc = "idle"
       /\ \E options \in Options, video_info \in VideoInfos,
             aria2_enabled \in BOOLEAN, aria2_state \in Aria2States :
              DownloadAccelerator_enhanced_download(
                  options, video_info, aria2_enabled, aria2_state)
    \/ determine_again
    \/ \E outcome \in Aria2Outcomes : download_with_aria2(outcome)
    \/ \E outcome \in YtdlpOutcomes : download_segmented(outcome)
    \/ \E outcome \in YtdlpOutcomes : download_parallel(outcome)
    \/ no_enhanced_method
    \/ \E outcome \in YtdlpOutcomes : executor_standard(outcome)
    \/ executor_surface

SpecSelect == Init /\ [][NextSelect]_vars

\* ------------------------------------------------------------------ claims
Exists(j) == job[j].status # "absent"

\* C1: once a job's status is success, failed or cancelled, no step changes it.
C1_TerminalImmutable ==
    [][\A j \in JobIds :
          job[j].status \in Terminal => job'[j].status = job[j].status]_vars

\* C2: at most one task execution of a given job is in progress at any time.
ExecutionsOf(j) == {t \in ActiveTasks : task[t].job = j}

C2_SingleExecution == \A j \in JobIds : Cardinality(ExecutionsOf(j)) <= 1

\* C3: when several coordinators detect the same stale node in overlapping
\* cycles, each job of that node is re-enqueued by migration once only for
\* that failure of the node, never twice.
C3_MigratedOnce == \A j \in JobIds : migrated[j] <= 1

\* C4: a job that is RUNNING when the process executing it stops, while a
\* coordinator survives, is eventually PENDING with its owner cleared and a
\* migration note.
Orphaned(j) ==
    /\ job[j].status = "running"
    /\ ExecutionsOf(j) = {}
    /\ \E k \in NodeIds : j \in running_jobs[k]
    /\ \E p \in Procs : ~proc[p].up
Migrated(j) ==
    /\ job[j].status = "pending"
    /\ job[j].node_id = "null"
    /\ job[j].migration_note
C4_OrphanMigrated ==
    \A j \in JobIds :
        (Orphaned(j) /\ [](\E p \in Procs : proc[p].up)) ~> Migrated(j)

\* C5: the non-terminal jobs of normal-tier callers never exceed the
\* normal-tier ceiling.
NonTerminalJobs == {j \in JobIds : Exists(j) /\ job[j].status \notin Terminal}

C5_AdmissionCeiling ==
    Cardinality({j \in NonTerminalJobs : ~job[j].premium})
        <= MAX_CONCURRENT_JOBS_NORMAL

\* C6: every change of an existing job's status follows an edge of the
\* lifecycle state machine.
Edges ==
    {<<"pending", "running">>, <<"running", "success">>,
     <<"running", "retrying">>, <<"retrying", "running">>,
     <<"running", "failed">>, <<"pending", "cancelled">>,
     <<"running", "cancelled">>, <<"running", "pending">>}

C6_OnlyLifecycleEdges ==
    [][\A j \in JobIds :
          Exists(j) /\ job'[j].status # job[j].status
              => <<job[j].status, job'[j].status>> \in Edges]_vars

\* C7: retry_count never exceeds max_retries and the health monitor
\* re-enqueues a job at most max_retries times.
C7_RetriesBounded ==
    \A j \in JobIds :
        db[j].retry_count <= max_retries /\ retried[j] <= max_retries

\* C8: a status write by a task execution that arrives when the job is
\* already terminal leaves the job record unchanged.
WorkerWrite(t) ==
    task_running(t) \/ task_success(t) \/ \E k \in ErrorKinds : task_failed(t, k)

C8_StaleUpdateRejected ==
    [][\A t \in TaskIds :
          WorkerWrite(t) /\ job[task[t].job].status \in Terminal
              => job' = job]_vars

\* C9: a job cancelled while running (its record carries the started_at and
\* task_id the running task wrote) is never failed afterwards.
C9_CancelledNeverFailed ==
    [][\A j \in JobIds :
          job[j].status = "cancelled" /\ job[j].started_at
              => job'[j].status # "failed"]_vars

\* C10: cancel on a job that is already success, failed or cancelled leaves
\* the job record unchanged.
C10_CancelTerminalNoOp ==
    [][\A c \in Cancels :
          cancel_job_set(c) /\ job[cancelReq[c].job].status \in Terminal
              => job' = job]_vars

\* C11: a job whose execution raises a transient error, with retries left,
\* goes from running to retrying (and is dispatched again), not to failed.
C11_TransientRetries ==
    [][\A t \in TaskIds :
          task_failed(t, "transient") /\ retried[task[t].job] < max_retries
              => job'[task[t].job].status = "retrying"]_vars

\* C12: a job that failed with a permanent error is never dispatched again;
\* the health monitor's retry pass does not re-enqueue it.
C12_PermanentNotRetried ==
    [][\A m \in Monitors, j \in JobIds :
          retry_failed_jobs_job(m, j) => job[j].error # "permanent"]_vars

\* C13: admission counts every non-terminal job: a normal-tier submission is
\* admitted only while fewer non-terminal jobs than the ceiling exist.
C13_AdmissionCountsJobs ==
    [][\A j \in JobIds :
          create_download_job(j, FALSE)
              => Cardinality(NonTerminalJobs) < MAX_CONCURRENT_JOBS_NORMAL]_vars

\* C14: the delay of a retry never decreases as retry_count grows and never
\* exceeds the configured cap: for every count the retry filter lets
\* through, and for every message that was sent with a delay.
RetryCounts == 0..(max_retries - 1)
C14_BackoffMonotoneCapped ==
    /\ \A a \in RetryCounts, b \in RetryCounts :
          a <= b => retry_countdown(a) <= retry_countdown(b)
    /\ \A a \in RetryCounts : retry_countdown(a) <= retry_backoff_max
    /\ \A t \in TaskIds : task[t].countdown <= retry_backoff_max
C14_Witness == \E t \in TaskIds : task[t].st = "queued" /\ task[t].countdown > 0

SelectorRaised ==
    determine_rules(accel.options, accel.video_info, accel.aria2_enabled,
                    accel.aria2_state) = "raise"

Overridden(options, aria2_enabled) ==
    \/ options.force_aria2 /\ aria2_enabled
    \/ options.force_standard
    \/ options.force_parallel

HasProtocol(formats, protocols) ==
    \E i \in 1..Len(formats) : formats[i] \in protocols

FirstMatchingRule(options, video_info, aria2_enabled, aria2_state) ==
    IF options.force_aria2 /\ aria2_enabled THEN "aria2"
    ELSE IF options.force_standard THEN "standard"
    ELSE IF options.force_parallel THEN "parallel"
    ELSE IF ~aria2_enabled \/ aria2_state # "up" THEN "standard"
    ELSE IF video_info.filesize > threshold_bytes THEN "aria2"
    ELSE IF HasProtocol(video_info.formats, {"m3u8", "hls", "m3u8_native"})
         THEN "segmented"
    ELSE IF HasProtocol(video_info.formats, {"http_dash_segments"})
         THEN "parallel"
    ELSE IF video_info.duration > long_duration THEN "parallel"
    ELSE "standard"

\* C16: for well-formed metadata the selected method is the method of the
\* first matching rule of the seven-rule priority order (override, daemon
\* unavailable, large file, HLS, DASH, long duration, default).
C16_FirstMatchingRuleWins ==
    accel.pc # "idle" /\ ~HasProtocol(accel.video_info.formats, {"null"}) =>
        accel.method = FirstMatchingRule(accel.options, accel.video_info,
                                         accel.aria2_enabled, accel.aria2_state)

\* C17: with the daemon disabled or unreachable and no user override, the
\* selected method is standard whatever the filesize, protocols and duration.
C17_DaemonUnavailableStandard ==
    /\ accel.pc # "idle"
    /\ ~accel.aria2_enabled \/ accel.aria2_state # "up"
    /\ ~Overridden(accel.options, accel.aria2_enabled)
    => accel.method = "standard"

\* C18: when the chosen non-standard method fails for a reason of its own
\* (daemon RPC failure, download error reported by the daemon, timeout, no
\* files from the fragment download), the attempt runs standard exactly once
\* before its end is surfaced.
MethodFailed ==
    /\ accel.method \in {"aria2", "segmented", "parallel"}
    /\ accel.outcome \in {"no_gid", "failed", "error", "timeout"}

C18_FallbackToStandardOnce ==
    accel.pc = "done" /\ MethodFailed => accel.standard_attempts = 1

\* C19: a record whose status is success or failed has completed_at set and
\* no owner.
C19_FinishedHasCompletedAt ==
    \A j \in JobIds :
        job[j].status \in {"success", "failed"}
            => job[j].completed_at /\ job[j].node_id \in {"unset", "null"}

\* C20: the status the status query returns is the status stored in the
\* record at that moment.
C20_QueryEqualsRecord ==
    \A j \in JobIds : Exists(j) => get_job_status(j) = job[j].status

\* C21: when the store holds no cluster:status (cold start, single node,
\* expired key), GET /cluster/status answers with the synthesized single-node
\* healthy status, never with an error.
C21_NoSnapshotSingleNode ==
    cluster_reply.key = "absent" => cluster_reply.body = "single_node"

\* C22: while a node waits in graceful shutdown for its jobs, with its
\* MAINTENANCE heartbeat published, no coordinator has it among the nodes it
\* found down, whose jobs it migrates.
C22_MaintenanceNotStale ==
    \A c \in Shutdowns, p \in Procs :
        shut[c].pc = "wait" => NodeId(shut[c].proc) \notin proc[p].down

\* C23: every heartbeat key in the store was written with a TTL of
\* 2 x heartbeat_interval, so none is older than that.
C23_HeartbeatTTL ==
    \A k \in NodeIds :
        hb[k].status # "none" =>
            /\ TTL(hb[k].status) = 2 * heartbeat_interval
            /\ hb[k].age < 2 * heartbeat_interval

\* C24: a step of the health monitor leaves every job record, heartbeat
\* record and the cluster status in the store as it was.
C24_RecoveryNonDestructive ==
    [][mon' # mon =>
          job' = job /\ hb' = hb /\ cluster_status' = cluster_status]_vars

Warnings(set) == {a \in set : IsWarning(a)}

\* C25: a warning is not delivered again within 300 s of its previous
\* delivery, and a warning not delivered within the last 300 s is delivered
\* in the cycle that produced it.
C25_WarningDedup ==
    /\ \A a, b \in Warnings(monitoring.posted) :
          a.metric = b.metric /\ a.timestamp < b.timestamp =>
              b.timestamp - a.timestamp > warning_resend_seconds
    /\ \A a \in Warnings(monitoring.produced) :
          (\A b \in Warnings(monitoring.posted) :
               b.metric = a.metric /\ b.timestamp < a.timestamp =>
                   a.timestamp - b.timestamp > warning_resend_seconds)
          => a \in monitoring.posted

\* C26: every alert the checks of a cycle produced, critical or warning, is
\* in the alert history from that cycle on, whether it was passed on or
\* held back.
C26_AllAlertsInHistory ==
    monitoring.produced \subseteq Range(monitoring.alert_history)

C26_Witness ==
    \E a \in Warnings(monitoring.produced) :
        /\ a \notin monitoring.sent
        /\ a \in Range(monitoring.alert_history)

DiskCritical(t) == [metric |-> "disk", severity |-> "critical", timestamp |-> t]

\* C27: when two consecutive cycles, less than 300 s apart, produce the
\* critical disk alert, the first produced exactly one critical alert and
\* had a cleanup scheduled, and the second's alert is in the history and
\* was not delivered.
C27_DiskCriticalTwice ==
    \A t \in 0..monitoring.now :
        LET u == t + assessment_seconds + monitoring_interval
        IN  DiskCritical(t) \in monitoring.produced
            /\ DiskCritical(u) \in monitoring.produced
            => /\ Cardinality({a \in monitoring.produced :
                      IsCritical(a) /\ a.timestamp = t}) = 1
               /\ monitoring.cleanup_scheduled
               /\ DiskCritical(u) \in Range(monitoring.alert_history)
               /\ DiskCritical(u) \notin monitoring.posted

\* C28: no step of a heartbeat loop, of a graceful shutdown or of the health
\* monitor turns a job's status, in the store or in the job table, into
\* failed; a step of the health monitor leaves the status and the owner of
\* every job record that is still there as they were; and only a step of a
\* heartbeat loop puts a migration note on a job.
C28_SoleWriter ==
    [][\A j \in JobIds :
          /\ mon' # mon \/ proc' # proc \/ shut' # shut =>
                /\ job'[j].status = "failed" => job[j].status = "failed"
                /\ db'[j].status = "failed" => db[j].status = "failed"
          /\ mon' # mon /\ job'[j].status # "absent" =>
                /\ job'[j].status = job[j].status
                /\ job'[j].node_id = job[j].node_id
          /\ job'[j].migration_note /\ ~job[j].migration_note =>
                proc' # proc /\ mon' = mon]_vars

\* A job the health monitor re-enqueued after a failure and a heartbeat loop
\* migrated.
C28_Witness ==
    \E j \in JobIds :
        /\ retried[j] > 0
        /\ job[j].migration_note /\ job[j].node_id = "null"

\* C29: every task message that is queued or being executed carries the id
\* of a job whose record exists with its url and created_at, and a queued
\* message's job was persisted as pending before the message was sent.
C29_RecordBeforeEnqueue ==
    \A t \in TaskIds :
        task[t].st \in {"queued", "started", "running"} =>
            /\ job[task[t].job].status # "absent"
            /\ job[task[t].job].url
            /\ job[task[t].job].created_at

\* C30: a heartbeat loop re-enqueues a job of a stale node only when the
\* heartbeat key of that node is gone, deleted by this loop.
C30_DeleteThenMigrate ==
    [][\A p \in Procs, j \in JobIds :
          migrate_job(p, j) => hb[proc[p].cur].status = "none"]_vars

\* C31: failover_timeout is at least three heartbeat intervals, and a
\* heartbeat loop that classifies a node as down, the only way to a migration
\* of its jobs, finds a heartbeat published three intervals ago or more: a
\* node whose heartbeat was published in the last two intervals (every
\* interval, or with one publication late by an interval) is not classified.
C31_NoFalsePositive ==
    [][/\ failover_timeout >= 3 * heartbeat_interval
       /\ \A p \in Procs :
             proc[p].pc = "check" /\ proc'[p].pc = "handle" =>
                 /\ proc'[p].down # {}
                 /\ \A k \in proc'[p].down :
                        hb[k].age >= 3 * heartbeat_interval
       /\ \A p \in Procs, j \in JobIds :
             migrate_job(p, j) => proc[p].cur \in proc[p].down]_vars

\* A loop has just checked a heartbeat that is one interval old, its own
\* publication having failed once, and sleeps without classifying the node.
C31_Witness ==
    \E p \in Procs :
        /\ proc[p].up /\ proc[p].pc = "sleep"
        /\ proc[p].wait = heartbeat_interval /\ proc[p].down = {}
        /\ hb[NodeId(p)].status = "active"
        /\ hb[NodeId(p)].age = heartbeat_interval

\* C32: a migration pass over a job that is already success, failed or
\* cancelled leaves its record as it was and re-enqueues nothing.
C32_MigrationSkipsTerminal ==
    [][\A p \in Procs, j \in JobIds :
          migrate_job(p, j) /\ job[j].status \in Terminal =>
              job'[j] = job[j] /\ task' = task]_vars

\* C33: once a graceful shutdown has completed, the heartbeat key of its
\* node is absent: the node's heartbeat loop does not publish it again.
C33_ShutdownKeyStaysAbsent ==
    \A c \in Shutdowns :
        shut[c].pc = "done" => hb[NodeId(shut[c].proc)].status = "none"

\* C34: with no override, the daemon enabled, a file not over the size
\* threshold and well-formed formats of which one is HLS (m3u8, hls or
\* m3u8_native), the selector answers segmented, whether or not a DASH format
\* is in the list and wherever it stands.
C34_SegmentedBeforeParallel ==
    /\ accel.pc # "idle"
    /\ ~Overridden(accel.options, accel.aria2_enabled)
    /\ accel.aria2_enabled
    /\ ~(accel.video_info.filesize > threshold_bytes)
    /\ ~HasProtocol(accel.video_info.formats, {"null"})
    /\ HasProtocol(accel.video_info.formats, {"m3u8", "hls", "m3u8_native"})
    => accel.answers = {"segmented"}

\* C35: a worker check that counted no worker reports critical, whatever the
\* length of the backlog.
C35_NoWorkerCritical ==
    \A m \in Monitors :
        mon[m].celery.status # "none" /\ mon[m].celery.active_workers = 0 =>
            mon[m].celery.status = "critical"

\* C36: after every cycle the alert history has max_alert_history entries
\* at most, and it is the last entries of all alerts that arrived, in the
\* order of their arrival.
LastOf(seq, n) ==
    IF Len(seq) > n THEN SubSeq(seq, Len(seq) - n + 1, Len(seq)) ELSE seq
C36_HistoryBounded ==
    /\ Len(monitoring.alert_history) <= 1000
    /\ monitoring.alert_history = LastOf(monitoring.arrived, 1000)

\* More alerts have arrived than the history holds, by an odd number.
C36_Witness ==
    /\ Len(monitoring.arrived) = 1000 + 3
    /\ Len(monitoring.alert_history) = 1000

\* C37: a call made while the breaker is open and less than recovery_timeout
\* has passed since the last failure raises without invoking the function
\* and leaves state, failure_count and last_failure_time as they were.
C37_OpenRejects ==
    [][/\ breaker'.calls # breaker.calls
       /\ breaker.state = "open"
       /\ breaker.now - breaker.last_failure_time < 60
       => /\ breaker'.last = "rejected"
          /\ breaker'.state = "open"
          /\ breaker'.failure_count = breaker.failure_count
          /\ breaker'.last_failure_time = breaker.last_failure_time]_vars

\* A call was rejected 59 s after the failure that opened the breaker.
C37_Witness ==
    /\ breaker.last = "rejected" /\ breaker.state = "open"
    /\ breaker.now - breaker.last_failure_time = 59

\* C38: a closed breaker has fewer than failure_threshold failures on its
\* count; a call closes or opens the breaker in these cases only: a closed
\* breaker opens exactly when the expected failures in a row reach the
\* threshold, a call that returns sets the count to 0 and the state to
\* closed, and a trial call that fails with the expected exception leaves
\* the breaker open.
C38_Witness ==
    /\ breaker.state = "open" /\ breaker.last = "raises_expected"
    /\ breaker.failure_count = 5 + 1

C38_ClosedBelowThreshold ==
    [][/\ breaker.state = "closed" => breaker.failure_count < 5
       /\ breaker'.calls # breaker.calls =>
             /\ breaker.state = "closed" =>
                   (breaker'.state = "open" <=>
                       breaker'.last = "raises_expected" /\ breaker'.streak = 5)
             /\ breaker'.last = "returns" =>
                   breaker'.failure_count = 0 /\ breaker'.state = "closed"
             /\ /\ breaker.state \in {"open", "half_open"}
                /\ breaker'.last = "raises_expected"
                => breaker'.state = "open"
             /\ breaker'.state = "closed" /\ breaker.state # "closed" =>
                   breaker'.last = "returns"]_vars

\* C39: at no time are two clients inside the with-block of acquire for the
\* same key, with auto_renewal set or not.
C39_MutualExclusion ==
    Cardinality({c \in Clients : lock.pc[c] = "inside"}) <= 1

\* C40: every deletion of the key by a release removed the releaser's own
\* lock, and every client that ran the release had acquired the lock.
C40_ReleaseOwnLockOnly ==
    /\ \A d \in lock.deleted : d.was = d.by
    /\ lock.released \subseteq lock.acquired
    /\ \A c \in Clients : lock.pc[c] = "failed" => c \notin lock.released

\* A client whose lock expired has run its release while another client held
\* the key, which is still that client's.
C40_Witness ==
    \E c \in Clients :
        /\ lock.pc[c] = "done" /\ lock.owner \notin {0, c}
        /\ lock.pc[lock.owner] = "inside"
====
